---- MODULE Spec2Model ----
(***************************************************************************)
(* Edit-request approval engine of QR-health: the admin router             *)
(* (server/routes/admin.js) over the Patient and PatientEditRequest        *)
(* stores.  Every handler is an async function: it runs atomically from    *)
(* one awaited store operation to the next, and handlers of different      *)
(* HTTP calls interleave at those awaits.                                  *)
(***************************************************************************)
EXTENDS Integers, Sequences, FiniteSets, TLC

\* ------------------------------------------------------------------ bounds
NumRequests == 3          \* stored edit requests
MaxCalls == 2             \* HTTP calls issued in one behaviour, all may overlap

\* ------------------------------------------------------------- the stores
PatientIds == {"p1", "p2"}
RequestIds == 1..NumRequests
UnknownId == 0            \* a :id parameter that matches no stored request

Null == [null |-> TRUE]   \* what findById / populate yield for a missing document

\* The Patient documents stored before any call.
InitialPatients ==
    [p \in PatientIds |->
        [fullName |-> "Alice",
         emergencyContact |-> [phone |-> "111", email |-> "a@x.com"],
         hospital |-> IF p = "p1" THEN "h1" ELSE "h2"]]

\* Fields a hospital may propose a change for (the record's editable schema).
EditableFields == {"fullName", "emergencyContact"}

\* The requestedChanges payloads of the stored requests, in turn: a nested
\* field mentioning one sub-key, a flat field, an ownership key, and a flat
\* and a nested field together.
ChangeSets ==
    << [emergencyContact |-> [phone |-> "222"]],
       [fullName |-> "Bob"],
       [hospital |-> "h1"],
       [fullName |-> "Bob", emergencyContact |-> [phone |-> "222"]] >>

\* The PatientEditRequest documents stored before any call: all PENDING, the
\* first two for patient p1, the next two for p2, and so on; the request
\* with the higher id is not always the newer one.
InitialRequests ==
    [r \in RequestIds |->
        LET p == IF ((r - 1) \div 2) % 2 = 0 THEN "p1" ELSE "p2" IN
        [patient |-> p,
         hospital |-> InitialPatients[p].hospital,
         requestedChanges |-> ChangeSets[((r - 1) % Len(ChangeSets)) + 1],
         status |-> "PENDING",
         createdAt |-> IF r % 2 = 1 THEN r + 1 ELSE r - 1]]

Roles == {"SUPER_ADMIN", "HOSPITAL_ADMIN"}
Ops == {"approve", "reject", "list", "count"}
Slots == 1..MaxCalls

VARIABLES
    patients,   \* Patient collection: _id -> document (deleted ids are absent)
    requests,   \* PatientEditRequest collection: _id -> document
    calls,      \* slot -> the HTTP call it holds, with its handler's locals
    merged,     \* history: the requests whose changes a patient.save() has written
    reports,    \* Report collection: _id -> document
    page        \* the AdminRequests page: the request it renders and the rendering

vars == <<patients, requests, calls, merged, reports, page>>

\* ------------------------------------------------------------ pure helpers

\* Variant: a text value is appended to the one already there.
ObjectAssignAppend(target, source) ==
    [k \in DOMAIN target \cup DOMAIN source |->
        IF k \notin DOMAIN source THEN target[k]
        ELSE IF k \notin DOMAIN target \/ k = "emergencyContact" THEN source[k]
        ELSE target[k] \o source[k]]

\* Object.assign(target, source): every own key of source is copied onto
\* target, whole value by whole value (a nested object is replaced).
ObjectAssign(target, source) ==
    [k \in DOMAIN target \cup DOMAIN source |->
        IF k \in DOMAIN source THEN source[k] ELSE target[k]]

\* The paths a document tracks as modified after the assignment: those whose
\* new value differs from the loaded one.  save() writes these paths only.
ModifiedPaths(loaded, doc) ==
    {k \in DOMAIN doc : k \notin DOMAIN loaded \/ loaded[k] # doc[k]}

\* Variant: save() overwrites the stored document with the loaded copy.
SaveWholeDoc(stored, doc, paths) == doc

\* doc.save(): $set of the modified paths on the stored document.
SaveDoc(stored, doc, paths) ==
    [k \in DOMAIN stored \cup paths |->
        IF k \in paths THEN doc[k] ELSE stored[k]]

\* Variant: any administrator role is let through.
ensureAnyAdmin(role) == role \in {"SUPER_ADMIN", "HOSPITAL_ADMIN"}

\* ensureSuperAdmin: next() is called only for SUPER_ADMIN.
ensureSuperAdmin(role) == role = "SUPER_ADMIN"

\* Variant: only a rejected request counts as processed.
AlreadyRejected(request) == request.status = "REJECTED"

\* request.status !== 'PENDING'
AlreadyProcessed(request) == request.status # "PENDING"

\* PatientEditRequest.findById / Patient.findById
FindById(collection, id) ==
    IF id \in DOMAIN collection THEN collection[id] ELSE Null

\* PatientEditRequest.find({ status: 'PENDING' }): the matching ids.
FindPending(collection) ==
    {r \in DOMAIN collection : collection[r].status = "PENDING"}

\* Variant: .sort({ createdAt: 1 }), oldest first.
RECURSIVE SortOldestFirst(_, _)
SortOldestFirst(collection, S) ==
    IF S = {} THEN <<>>
    ELSE LET oldest == CHOOSE r \in S :
                          \A q \in S : collection[r].createdAt <= collection[q].createdAt
         IN <<oldest>> \o SortOldestFirst(collection, S \ {oldest})

\* .sort({ createdAt: -1 }): the ids of S, newest first.
RECURSIVE SortNewestFirst(_, _)
SortNewestFirst(collection, S) ==
    IF S = {} THEN <<>>
    ELSE LET newest == CHOOSE r \in S :
                          \A q \in S : collection[q].createdAt <= collection[r].createdAt
         IN <<newest>> \o SortNewestFirst(collection, S \ {newest})

\* .populate('patient'): the reference becomes the patient document, or null
\* when no such patient is stored.
Populate(request, id) ==
    [id |-> id, patient |-> FindById(patients, request.patient)]

\* The requests array of the GET /requests response.
PendingListing ==
    LET found == SortNewestFirst(requests, FindPending(requests)) IN
    [i \in 1..Len(found) |-> Populate(requests[found[i]], found[i])]

\* fetchRequests of the AdminRequests page: req => req.patient
HasPatient(req) == req.patient # Null

\* fetchRequests: response.data.requests.filter(req => req.patient)
ValidRequests(list) == SelectSeq(list, HasPatient)

\* A slot that holds no call.
Idle ==
    [op |-> "none", role |-> "none", id |-> UnknownId, pc |-> "idle", res |-> "none",
     request |-> Null, patient |-> Null, paths |-> {}, saved |-> FALSE,
     list |-> <<>>, count |-> 0,
     userHospital |-> "none", patientId |-> "none", body |-> Null, report |-> Null]

\* Calls take the slots in turn, each slot holds one call.
Free(s) == calls[s].pc = "idle" /\ \A t \in Slots : t < s => calls[t].pc # "idle"

\* The response is sent: the handler's locals are dropped, the slot keeps the
\* call and its outcome.
Done(op, role, id, res, saved) ==
    [Idle EXCEPT !.op = op, !.role = role, !.id = id, !.pc = "done",
                 !.res = res, !.saved = saved]

\* The handler starts: its locals after the first read.
Running(op, role, id, pc, request) ==
    [Idle EXCEPT !.op = op, !.role = role, !.id = id, !.pc = pc,
                 !.request = request]

Respond(s, res) ==
    calls' = [calls EXCEPT ![s] =
                [Done(calls[s].op, calls[s].role, calls[s].id, res, calls[s].saved)
                    EXCEPT !.userHospital = calls[s].userHospital,
                           !.patientId = calls[s].patientId,
                           !.body = calls[s].body]]

\* ------------------------------------------------------------------- Init
\* The page before it has fetched anything.
BlankPage == [request |-> Null, rendered |-> Null]

Init ==
    /\ patients = InitialPatients
    /\ requests = InitialRequests
    /\ calls = [s \in Slots |-> Idle]
    /\ merged = {}
    /\ reports = <<>>
    /\ page = BlankPage

\* ---------------------------------------------------------------- actions
\* A handler runs without interruption from one awaited store operation to
\* the next; the store operation takes effect at the start of the step that
\* follows it.  A call's arrival, ensureSuperAdmin and the handler's first
\* read are one step: nothing the call has done before that read is visible
\* to another call.

\* ensureSuperAdmin stops the call: 403, the handler never runs.
Denied(s, op, role) ==
    /\ Free(s)
    /\ ~ensureSuperAdmin(role)
    /\ calls' = [calls EXCEPT ![s] = Done(op, role, UnknownId, "Forbidden", FALSE)]
    /\ UNCHANGED <<patients, requests, merged>>
    /\ UNCHANGED <<reports, page>>

\* POST /requests/:id/approve up to Patient.findById:
\* PatientEditRequest.findById and the two checks on its result.
Approve(s, role, id) ==
    /\ Free(s)
    /\ ensureSuperAdmin(role)
    /\ LET request == FindById(requests, id) IN
       calls' = [calls EXCEPT ![s] =
         IF request = Null
         THEN Done("approve", role, id, "RequestNotFound", FALSE)
         ELSE IF AlreadyProcessed(request)
         THEN Done("approve", role, id, "AlreadyResolved", FALSE)
         ELSE Running("approve", role, id, "findPatient", request)]
    /\ UNCHANGED <<patients, requests, merged>>
    /\ UNCHANGED <<reports, page>>

\* Variant: a missing patient skips the merge and the approval goes on.
ApproveFindPatientSkipMissing(s) ==
    /\ calls[s].op = "approve" /\ calls[s].pc = "findPatient"
    /\ LET patient == FindById(patients, calls[s].request.patient) IN
       IF patient = Null
       THEN calls' = [calls EXCEPT ![s].pc = "saveRequest",
                                   ![s].request.status = "APPROVED"]
       ELSE LET doc == ObjectAssign(patient, calls[s].request.requestedChanges) IN
            calls' = [calls EXCEPT ![s].pc = "savePatient",
                                   ![s].patient = doc,
                                   ![s].paths = ModifiedPaths(patient, doc)]
    /\ UNCHANGED <<patients, requests, merged>>
    /\ UNCHANGED <<reports, page>>

\* approve: Patient.findById, the null check, Object.assign on the loaded
\* document.
ApproveFindPatient(s) ==
    /\ calls[s].op = "approve" /\ calls[s].pc = "findPatient"
    /\ LET patient == FindById(patients, calls[s].request.patient) IN
       IF patient = Null
       THEN Respond(s, "RecordNotFound")
       ELSE LET doc == ObjectAssign(patient, calls[s].request.requestedChanges) IN
            calls' = [calls EXCEPT ![s].pc = "savePatient",
                                   ![s].patient = doc,
                                   ![s].paths = ModifiedPaths(patient, doc)]
    /\ UNCHANGED <<patients, requests, merged>>
    /\ UNCHANGED <<reports, page>>

\* approve: patient.save() takes effect, then request.status = 'APPROVED' is
\* set on the loaded request.  save() of a document that was deleted
\* meanwhile rejects (no stored document matches the update).
ApproveSavePatient(s) ==
    /\ calls[s].op = "approve" /\ calls[s].pc = "savePatient"
    /\ LET pid == calls[s].request.patient IN
       IF pid \notin DOMAIN patients
       THEN /\ Respond(s, "StoreError")
            /\ UNCHANGED <<patients, merged>>
       ELSE /\ patients' = [patients EXCEPT ![pid] =
                              SaveDoc(patients[pid], calls[s].patient, calls[s].paths)]
            /\ merged' = merged \cup {calls[s].id}
            /\ calls' = [calls EXCEPT ![s].pc = "saveRequest",
                                      ![s].saved = TRUE,
                                      ![s].request.status = "APPROVED"]
    /\ UNCHANGED requests
    /\ UNCHANGED <<reports, page>>

\* Variant: the save also stamps the request with a new createdAt.
SaveRequestTouch(s) ==
    /\ calls[s].pc = "saveRequest"
    /\ requests' = [requests EXCEPT ![calls[s].id].status = calls[s].request.status,
                                    ![calls[s].id].createdAt = NumRequests + 2]
    /\ Respond(s, "OK")
    /\ UNCHANGED <<patients, merged>>
    /\ UNCHANGED <<reports, page>>

\* Variant: a rejected request is removed instead of kept.
SaveRequestPurge(s) ==
    /\ calls[s].pc = "saveRequest"
    /\ requests' = IF calls[s].request.status = "REJECTED"
                   THEN [r \in DOMAIN requests \ {calls[s].id} |-> requests[r]]
                   ELSE [requests EXCEPT ![calls[s].id].status = calls[s].request.status]
    /\ Respond(s, "OK")
    /\ UNCHANGED <<patients, merged>>
    /\ UNCHANGED <<reports, page>>

\* approve and reject: request.save() writes the status set on the loaded
\* request, then the 200 response is sent.
SaveRequest(s) ==
    /\ calls[s].pc = "saveRequest"
    /\ requests' = [requests EXCEPT ![calls[s].id].status = calls[s].request.status]
    /\ Respond(s, "OK")
    /\ UNCHANGED <<patients, merged>>
    /\ UNCHANGED <<reports, page>>

\* Variant: the result of findById is used without the null check.
RejectNoNullCheck(s, role, id) ==
    /\ Free(s)
    /\ ensureSuperAdmin(role)
    /\ LET request == FindById(requests, id) IN
       calls' = [calls EXCEPT ![s] =
         IF request = Null
         THEN Done("reject", role, id, "TypeError", FALSE)
         ELSE IF AlreadyProcessed(request)
         THEN Done("reject", role, id, "AlreadyResolved", FALSE)
         ELSE Running("reject", role, id, "saveRequest",
                      [request EXCEPT !.status = "REJECTED"])]
    /\ UNCHANGED <<patients, requests, merged>>
    /\ UNCHANGED <<reports, page>>

\* Variant: reject looks the patient up and refuses when it is gone.
RejectChecksPatient(s, role, id) ==
    /\ Free(s)
    /\ ensureSuperAdmin(role)
    /\ LET request == FindById(requests, id) IN
       calls' = [calls EXCEPT ![s] =
         IF request = Null
         THEN Done("reject", role, id, "RequestNotFound", FALSE)
         ELSE IF AlreadyProcessed(request)
         THEN Done("reject", role, id, "AlreadyResolved", FALSE)
         ELSE IF FindById(patients, request.patient) = Null
         THEN Done("reject", role, id, "RecordNotFound", FALSE)
         ELSE Running("reject", role, id, "saveRequest",
                      [request EXCEPT !.status = "REJECTED"])]
    /\ UNCHANGED <<patients, requests, merged>>
    /\ UNCHANGED <<reports, page>>

\* POST /requests/:id/reject up to request.save():
\* PatientEditRequest.findById, the two checks, request.status = 'REJECTED'.
Reject(s, role, id) ==
    /\ Free(s)
    /\ ensureSuperAdmin(role)
    /\ LET request == FindById(requests, id) IN
       calls' = [calls EXCEPT ![s] =
         IF request = Null
         THEN Done("reject", role, id, "RequestNotFound", FALSE)
         ELSE IF AlreadyProcessed(request)
         THEN Done("reject", role, id, "AlreadyResolved", FALSE)
         ELSE Running("reject", role, id, "saveRequest",
                      [request EXCEPT !.status = "REJECTED"])]
    /\ UNCHANGED <<patients, requests, merged>>
    /\ UNCHANGED <<reports, page>>

\* GET /requests: the PENDING requests, populated, newest first, and their
\* number.
ListPending(s, role) ==
    /\ Free(s)
    /\ ensureSuperAdmin(role)
    /\ calls' = [calls EXCEPT ![s] =
         [Done("list", role, UnknownId, "OK", FALSE) EXCEPT
            !.list = PendingListing,
            !.count = Len(PendingListing)]]
    /\ UNCHANGED <<patients, requests, merged>>
    /\ UNCHANGED <<reports, page>>

\* Variant: the count leaves out the requests whose patient is gone.
CountPendingListed(s, role) ==
    /\ Free(s)
    /\ ensureSuperAdmin(role)
    /\ calls' = [calls EXCEPT ![s] =
         [Done("count", role, UnknownId, "OK", FALSE) EXCEPT
            !.count = Len(ValidRequests(PendingListing))]]
    /\ UNCHANGED <<patients, requests, merged>>
    /\ UNCHANGED <<reports, page>>

\* GET /requests/count: countDocuments({ status: 'PENDING' }).
CountPending(s, role) ==
    /\ Free(s)
    /\ ensureSuperAdmin(role)
    /\ calls' = [calls EXCEPT ![s] =
         [Done("count", role, UnknownId, "OK", FALSE) EXCEPT
            !.count = Cardinality(FindPending(requests))]]
    /\ UNCHANGED <<patients, requests, merged>>
    /\ UNCHANGED <<reports, page>>

\* An awaited store operation rejects: catch (error) { next(error) }.
StoreFails(s) ==
    /\ calls[s].pc \in {"findPatient", "savePatient", "saveRequest",
                       "saveReport", "populateReport", "findReports",
                       "saveUpdate", "populateUpdated", "deleteReport"}
    /\ Respond(s, "StoreError")
    /\ UNCHANGED <<patients, requests, merged>>
    /\ UNCHANGED <<reports, page>>

\* The first awaited store operation of a handler rejects.
FirstReadFails(s, op, role, id) ==
    /\ Free(s)
    /\ ensureSuperAdmin(role)
    /\ op \in {"list", "count"} => id = UnknownId
    /\ calls' = [calls EXCEPT ![s] = Done(op, role, id, "StoreError", FALSE)]
    /\ UNCHANGED <<patients, requests, merged>>
    /\ UNCHANGED <<reports, page>>

\* A patient is deleted by another router of the application.
DeletePatient(p) ==
    /\ p \in DOMAIN patients
    /\ patients' = [q \in DOMAIN patients \ {p} |-> patients[q]]
    /\ UNCHANGED <<requests, calls, merged>>
    /\ UNCHANGED <<reports, page>>

Next ==
    \/ \E s \in Slots, op \in Ops, role \in Roles : Denied(s, op, role)
    \/ \E s \in Slots, role \in Roles, id \in RequestIds \cup {UnknownId} :
          Approve(s, role, id)
    \/ \E s \in Slots : ApproveFindPatient(s)
    \/ \E s \in Slots : ApproveSavePatient(s)
    \/ \E s \in Slots : SaveRequest(s)
    \/ \E s \in Slots, role \in Roles, id \in RequestIds \cup {UnknownId} :
          Reject(s, role, id)
    \/ \E s \in Slots, role \in Roles : ListPending(s, role)
    \/ \E s \in Slots, role \in Roles : CountPending(s, role)
    \/ \E s \in Slots : StoreFails(s)
    \/ \E s \in Slots, op \in Ops, role \in Roles, id \in RequestIds \cup {UnknownId} :
          FirstReadFails(s, op, role, id)
    \/ \E p \in PatientIds : DeletePatient(p)

Spec == Init /\ [][Next]_vars
\* ------------------------------------------------ the AdminRequests page
\* (client/src/pages/AdminRequests.jsx): formatChanges renders the old/new
\* comparison of one listed request.

\* A JavaScript value that may be undefined: <<>> is undefined, <<v>> is v.
Undefined == <<>>

\* obj[key]
Lookup(obj, key) == IF key \in DOMAIN obj THEN <<obj[key]>> ELSE Undefined

\* typeof newValue === 'object' && newValue !== null: in the documents drawn
\* below, the value under emergencyContact is an object and every other
\* value is a string.
IsObject(key) == key = "emergencyContact"

\* JSON.stringify of a string or of undefined.
Stringify(v) == IF v = Undefined THEN Undefined ELSE <<"\"" \o v[1] \o "\"">>

\* String(v || 'N/A')
Display(v) == IF v = Undefined \/ v[1] = "" THEN "N/A" ELSE v[1]

\* oldValue ? oldValue[subKey] : 'N/A'
subOldValue(oldValue, subKey) ==
    IF oldValue # Undefined THEN Lookup(oldValue[1], subKey) ELSE <<"N/A">>

\* The flat branch: null when oldValue === newValue, else the old/new pair.
FlatEntry(oldValue, newValue) ==
    IF oldValue = <<newValue>> THEN Null
    ELSE [old |-> Display(oldValue), new |-> newValue]

\* The nested branch: the group of a key, one old/new pair for every sub-key
\* whose JSON texts differ and null for the others.
GroupEntry(oldValue, newValue) ==
    [entries |->
        [subKey \in DOMAIN newValue |->
            IF Stringify(subOldValue(oldValue, subKey)) = Stringify(<<newValue[subKey]>>)
            THEN Null
            ELSE [old |-> Display(subOldValue(oldValue, subKey)),
                  new |-> newValue[subKey]]]]

\* formatChanges(request): one element for every key of requestedChanges.
formatChanges(request) ==
    LET changes == request.requestedChanges
        patient == request.patient
    IN [key \in DOMAIN changes |->
           IF IsObject(key)
           THEN GroupEntry(Lookup(patient, key), changes[key])
           ELSE FlatEntry(Lookup(patient, key), changes[key])]

\* The documents the page is given.
EmptyDoc == [k \in {} |-> ""]
StoredNames == {"Alice", "N/A", ""}
StoredContacts == {[phone |-> "111"], [phone |-> "111", email |-> "a@x.com"],
                   [email |-> "a@x.com"]}
ProposedNames == {"Alice", "Bob", "N/A"}
ProposedContacts == {[phone |-> "111"], [phone |-> "222"], [phone |-> "N/A"],
                     [phone |-> "222", email |-> "a@x.com"]}
Documents(names, contacts) ==
    { n @@ c : n \in {EmptyDoc} \cup {[fullName |-> v] : v \in names},
               c \in {EmptyDoc} \cup {[emergencyContact |-> v] : v \in contacts} }

InitDiff ==
    /\ patients = InitialPatients
    /\ requests = InitialRequests
    /\ calls = [s \in Slots |-> Idle]
    /\ merged = {}
    /\ reports = <<>>
    /\ \E patient \in Documents(StoredNames, StoredContacts),
          changes \in Documents(ProposedNames, ProposedContacts) :
          page = [request |-> [patient |-> patient, requestedChanges |-> changes],
                  rendered |-> Null]

\* The page renders the request it holds.
FormatChanges ==
    /\ page.rendered = Null
    /\ page' = [page EXCEPT !.rendered = formatChanges(page.request)]
    /\ UNCHANGED <<patients, requests, calls, merged, reports>>

NextDiff == FormatChanges

SpecDiff == InitDiff /\ [][NextDiff]_vars


\* ------------------------------------------------------ the reports router
\* (unnamed/part_000) and the submission of an edit request.  authMiddleware
\* gives every call its actor: req.userRole and req.userHospital.

Actors ==
    { [role |-> "SUPER_ADMIN", userHospital |-> "h1"],
      [role |-> "HOSPITAL_ADMIN", userHospital |-> "h1"],
      [role |-> "HOSPITAL_ADMIN", userHospital |-> "h2"] }

\* req.body.title: missing, or given.
Titles == {"", "Scan"}

\* req.body.requestedChanges of a submission: empty, eligible, and eligible
\* with an ownership key.
SubmittedChanges ==
    {EmptyDoc, [fullName |-> "Bob"], [fullName |-> "Bob", hospital |-> "h1"]}

\* Variant: the ownership check lets every actor through.
OwnershipUnchecked(role, userHospital, patient) == FALSE

\* The ownership check, skipped for SUPER_ADMIN.
OwnershipDenied(role, userHospital, patient) ==
    role # "SUPER_ADMIN" /\ patient.hospital # userHospital

\* Patient.findById and the checks on its result, as both report handlers
\* make them: 404, 403, or the handler goes on.
PatientAccess(collection, role, userHospital, patientId) ==
    LET patient == FindById(collection, patientId) IN
    IF patient = Null THEN "PatientNotFound"
    ELSE IF OwnershipDenied(role, userHospital, patient) THEN "Forbidden"
    ELSE "Allowed"

\* A call of these routers in its slot: the actor, the patient id and the
\* body stay with the call.
CallOf(op, actor, patientId, body, pc, res) ==
    [Idle EXCEPT !.op = op, !.role = actor.role, !.userHospital = actor.userHospital,
                 !.patientId = patientId, !.body = body, !.pc = pc, !.res = res]

\* .sort({ reportDate: -1 }): the ids of S, latest report date first.
RECURSIVE SortLatestFirst(_, _)
SortLatestFirst(collection, S) ==
    IF S = {} THEN <<>>
    ELSE LET latest == CHOOSE r \in S :
                          \A q \in S : collection[q].reportDate <= collection[r].reportDate
         IN <<latest>> \o SortLatestFirst(collection, S \ {latest})

\* POST /api/reports up to report.save().  The body carries no reportDate, so
\* reportDate is Date.now(): calls take the slots in turn, the slot number
\* is the time of arrival.
CreateReport(s, actor, patientId, title) ==
    /\ Free(s)
    /\ LET body == [title |-> title]
           access == PatientAccess(patients, actor.role, actor.userHospital, patientId)
       IN calls' = [calls EXCEPT ![s] =
            IF title = ""
            THEN CallOf("createReport", actor, patientId, body, "done", "BadRequest")
            ELSE IF access # "Allowed"
            THEN CallOf("createReport", actor, patientId, body, "done", access)
            ELSE [CallOf("createReport", actor, patientId, body, "saveReport", "none")
                    EXCEPT !.report = [patient |-> patientId,
                                       hospital |-> actor.userHospital,
                                       title |-> title,
                                       reportDate |-> s]]]
    /\ UNCHANGED <<patients, requests, merged, reports, page>>

\* The Report documents stored before any call of the /:id routes, each
\* created by a HOSPITAL_ADMIN of its patient's hospital.
InitialReports ==
    << [patient |-> "p1", hospital |-> "h1", title |-> "Xray", reportDate |-> 0],
       [patient |-> "p2", hospital |-> "h2", title |-> "Xray", reportDate |-> 0] >>

\* The _id of the report that the call in slot s creates: never that of
\* another report, stored or deleted.
NewReportId(s) == Len(InitialReports) + s

\* report.save() takes effect.
SaveReport(s) ==
    /\ calls[s].op = "createReport" /\ calls[s].pc = "saveReport"
    /\ reports' = (NewReportId(s) :> calls[s].report) @@ reports
    /\ calls' = [calls EXCEPT ![s].pc = "populateReport", ![s].saved = TRUE,
                              ![s].id = NewReportId(s)]
    /\ UNCHANGED <<patients, requests, merged, page>>

\* The two populate calls succeed: 201.
PopulateReport(s) ==
    /\ calls[s].op = "createReport" /\ calls[s].pc = "populateReport"
    /\ Respond(s, "Created")
    /\ UNCHANGED <<patients, requests, merged, reports, page>>

\* GET /api/reports/patient/:patientId up to Report.find.
PatientReports(s, actor, patientId) ==
    /\ Free(s)
    /\ LET access == PatientAccess(patients, actor.role, actor.userHospital, patientId)
       IN calls' = [calls EXCEPT ![s] =
            IF access # "Allowed"
            THEN CallOf("patientReports", actor, patientId, Null, "done", access)
            ELSE CallOf("patientReports", actor, patientId, Null, "findReports", "none")]
    /\ UNCHANGED <<patients, requests, merged, reports, page>>

\* Report.find({ patient: patientId }) answers: 200 with the reports.
FindReports(s) ==
    /\ calls[s].op = "patientReports" /\ calls[s].pc = "findReports"
    /\ LET found == SortLatestFirst(reports,
                       {r \in DOMAIN reports : reports[r].patient = calls[s].patientId})
       IN calls' = [calls EXCEPT ![s] =
             [CallOf("patientReports", [role |-> calls[s].role,
                                         userHospital |-> calls[s].userHospital],
                     calls[s].patientId, Null, "done", "OK")
                EXCEPT !.list = found, !.count = Len(found)]]
    /\ UNCHANGED <<patients, requests, merged, reports, page>>

\* Patient.findById of a report handler rejects.
ReportReadFails(s, op, actor, patientId) ==
    /\ Free(s)
    /\ op \in {"createReport", "patientReports"}
    /\ calls' = [calls EXCEPT ![s] =
          CallOf(op, actor, patientId,
                 IF op = "createReport" THEN [title |-> "Scan"] ELSE Null,
                 "done", "StoreError")]
    /\ UNCHANGED <<patients, requests, merged, reports, page>>

\* Variant: a submission is checked for ownership only.
ValidationSkipped(changes) == "OK"

\* The validation of proposedChanges against the editable schema.
Validation(changes) ==
    IF DOMAIN changes = {} THEN "EmptyChangeSet"
    ELSE IF \E key \in DOMAIN changes : key \notin EditableFields THEN "InvalidField"
    ELSE "OK"

\* canCreate(actor, targetRecord)
canCreate(actor, record) ==
    actor.role = "SUPER_ADMIN" \/ actor.userHospital = record.hospital

\* submit(actor, targetRecordId, proposedChanges): the record is resolved,
\* canCreate is asked, the keys are validated, and a PENDING request is stored
\* with createdAt = now.
Submit(s, actor, patientId, changes) ==
    /\ Free(s)
    /\ LET record == FindById(patients, patientId)
           res == IF record = Null THEN "RecordNotFound"
                  ELSE IF ~canCreate(actor, record) THEN "Forbidden"
                  ELSE Validation(changes)
       IN /\ calls' = [calls EXCEPT ![s] =
                [CallOf("submit", actor, patientId, changes, "done", res)
                    EXCEPT !.saved = (res = "OK"),
                           !.id = IF res = "OK" THEN Len(requests) + 1 ELSE UnknownId]]
          /\ requests' =
                IF res = "OK"
                THEN Append(requests, [patient |-> patientId,
                                       hospital |-> record.hospital,
                                       requestedChanges |-> changes,
                                       status |-> "PENDING",
                                       createdAt |-> s])
                ELSE requests
    /\ UNCHANGED <<patients, merged, reports, page>>

\* No request and no report is stored yet.
InitCreate ==
    /\ patients = InitialPatients
    /\ requests = <<>>
    /\ calls = [s \in Slots |-> Idle]
    /\ merged = {}
    /\ reports = <<>>
    /\ page = BlankPage

\* Submissions alone, with every kind of body.
NextSubmit ==
    \/ \E s \in Slots, actor \in Actors, patientId \in PatientIds,
          changes \in SubmittedChanges : Submit(s, actor, patientId, changes)
    \/ \E p \in PatientIds : DeletePatient(p)

SpecSubmit == InitCreate /\ [][NextSubmit]_vars

\* The bodies that pass the validation.
EligibleChanges == {changes \in SubmittedChanges : Validation(changes) = "OK"}

\* Submissions of eligible bodies together with the calls of the reports router.
NextCreate ==
    \/ \E s \in Slots, actor \in Actors, patientId \in PatientIds,
          changes \in EligibleChanges : Submit(s, actor, patientId, changes)
    \/ \E s \in Slots, actor \in Actors, patientId \in PatientIds, title \in Titles :
          CreateReport(s, actor, patientId, title)
    \/ \E s \in Slots : SaveReport(s)
    \/ \E s \in Slots : PopulateReport(s)
    \/ \E s \in Slots, actor \in Actors, patientId \in PatientIds :
          PatientReports(s, actor, patientId)
    \/ \E s \in Slots : FindReports(s)
    \/ \E s \in Slots, op \in {"createReport", "patientReports"}, actor \in Actors,
          patientId \in PatientIds : ReportReadFails(s, op, actor, patientId)
    \/ \E s \in Slots : StoreFails(s)
    \/ \E p \in PatientIds : DeletePatient(p)

SpecCreate == InitCreate /\ [][NextCreate]_vars

\* ------------------------------------------- the /:id routes of the reports
\* router: GET, PUT and DELETE of one report.

\* Variant: the ownership check of a report lets every actor through.
ReportUnchecked(role, userHospital, report) == FALSE

\* The ownership check of a report, skipped for SUPER_ADMIN.
ReportDenied(role, userHospital, report) ==
    role # "SUPER_ADMIN" /\ report.hospital # userHospital

\* Report.findById and the checks on its result, as the three handlers make
\* them: 404, 403, or the handler goes on.
ReportAccess(role, userHospital, id) ==
    LET report == FindById(reports, id) IN
    IF report = Null THEN "ReportNotFound"
    ELSE IF ReportDenied(role, userHospital, report) THEN "Forbidden"
    ELSE "Allowed"

\* A call of a /:id route in its slot.
ReportCall(op, actor, id, body, pc, res) ==
    [CallOf(op, actor, "none", body, pc, res) EXCEPT !.id = id]

\* The :id parameters of the calls: the reports stored at first.
ReportIds == DOMAIN InitialReports

\* GET /api/reports/:id
GetReport(s, actor, id) ==
    /\ Free(s)
    /\ LET access == ReportAccess(actor.role, actor.userHospital, id) IN
       calls' = [calls EXCEPT ![s] =
          ReportCall("getReport", actor, id, Null, "done",
                     IF access = "Allowed" THEN "OK" ELSE access)]
    /\ UNCHANGED <<patients, requests, merged, reports, page>>

\* PUT /api/reports/:id up to report.save(): a title in the body is set on
\* the loaded report; the hospital and the patient are not among the fields
\* the handler sets.
UpdateReport(s, actor, id, title) ==
    /\ Free(s)
    /\ LET body == [title |-> title]
           access == ReportAccess(actor.role, actor.userHospital, id)
       IN calls' = [calls EXCEPT ![s] =
            IF access # "Allowed"
            THEN ReportCall("updateReport", actor, id, body, "done", access)
            ELSE LET doc == IF title # "" THEN [reports[id] EXCEPT !.title = title]
                                          ELSE reports[id]
                 IN [ReportCall("updateReport", actor, id, body, "saveUpdate", "none")
                       EXCEPT !.report = doc,
                              !.paths = ModifiedPaths(reports[id], doc)]]
    /\ UNCHANGED <<patients, requests, merged, reports, page>>

\* PUT: report.save() takes effect; it rejects when the report has been
\* deleted meanwhile.
SaveUpdate(s) ==
    /\ calls[s].op = "updateReport" /\ calls[s].pc = "saveUpdate"
    /\ IF calls[s].id \notin DOMAIN reports
       THEN /\ Respond(s, "StoreError")
            /\ UNCHANGED reports
       ELSE /\ reports' = [reports EXCEPT ![calls[s].id] =
                             SaveDoc(reports[calls[s].id], calls[s].report, calls[s].paths)]
            /\ calls' = [calls EXCEPT ![s].pc = "populateUpdated", ![s].saved = TRUE]
    /\ UNCHANGED <<patients, requests, merged, page>>

\* PUT: the two populate calls succeed: 200.
PopulateUpdated(s) ==
    /\ calls[s].op = "updateReport" /\ calls[s].pc = "populateUpdated"
    /\ Respond(s, "OK")
    /\ UNCHANGED <<patients, requests, merged, reports, page>>

\* DELETE /api/reports/:id up to Report.findByIdAndDelete.
DeleteReport(s, actor, id) ==
    /\ Free(s)
    /\ LET access == ReportAccess(actor.role, actor.userHospital, id) IN
       calls' = [calls EXCEPT ![s] =
          IF access # "Allowed"
          THEN ReportCall("deleteReport", actor, id, Null, "done", access)
          ELSE ReportCall("deleteReport", actor, id, Null, "deleteReport", "none")]
    /\ UNCHANGED <<patients, requests, merged, reports, page>>

\* DELETE: Report.findByIdAndDelete takes effect (nothing to do when the
\* report is gone already): 200.
RemoveReport(s) ==
    /\ calls[s].op = "deleteReport" /\ calls[s].pc = "deleteReport"
    /\ reports' = [r \in DOMAIN reports \ {calls[s].id} |-> reports[r]]
    /\ calls' = [calls EXCEPT ![s] =
          [ReportCall("deleteReport", [role |-> calls[s].role,
                                       userHospital |-> calls[s].userHospital],
                      calls[s].id, Null, "done", "OK")
             EXCEPT !.saved = TRUE]]
    /\ UNCHANGED <<patients, requests, merged, page>>

\* Report.findById of a /:id handler rejects.
ReportLookupFails(s, op, actor, id) ==
    /\ Free(s)
    /\ op \in {"getReport", "updateReport", "deleteReport"}
    /\ calls' = [calls EXCEPT ![s] =
          ReportCall(op, actor, id,
                     IF op = "updateReport" THEN [title |-> "Scan"] ELSE Null,
                     "done", "StoreError")]
    /\ UNCHANGED <<patients, requests, merged, reports, page>>

\* Two reports are stored, no request.
InitReports ==
    /\ patients = InitialPatients
    /\ requests = <<>>
    /\ calls = [s \in Slots |-> Idle]
    /\ merged = {}
    /\ reports = InitialReports
    /\ page = BlankPage

\* Creation, reading, update and deletion of reports.
NextReports ==
    \/ \E s \in Slots, actor \in Actors, patientId \in PatientIds, title \in Titles :
          CreateReport(s, actor, patientId, title)
    \/ \E s \in Slots : SaveReport(s)
    \/ \E s \in Slots : PopulateReport(s)
    \/ \E s \in Slots, actor \in Actors, id \in ReportIds : GetReport(s, actor, id)
    \/ \E s \in Slots, actor \in Actors, id \in ReportIds, title \in Titles :
          UpdateReport(s, actor, id, title)
    \/ \E s \in Slots : SaveUpdate(s)
    \/ \E s \in Slots : PopulateUpdated(s)
    \/ \E s \in Slots, actor \in Actors, id \in ReportIds : DeleteReport(s, actor, id)
    \/ \E s \in Slots : RemoveReport(s)
    \/ \E s \in Slots, op \in {"getReport", "updateReport", "deleteReport"},
          actor \in Actors, id \in ReportIds : ReportLookupFails(s, op, actor, id)
    \/ \E s \in Slots : StoreFails(s)

SpecReports == InitReports /\ [][NextReports]_vars

\* ----------------------------------------------------------------- claims

\* The call in slot s has taken its first step in this transition.
Arrives(s) == calls[s].pc = "idle" /\ calls'[s].pc # "idle"

\* The call in slot s is a finished approve of request r.
ApproveDone(s, r) ==
    calls[s].op = "approve" /\ calls[s].pc = "done" /\ calls[s].id = r

\* No call other than s has written a patient.
OnlyWriter(s) == \A t \in Slots \ {s} : ~calls[t].saved

\* C1: the status of a request changes only out of PENDING: no step takes a
\* request out of APPROVED or REJECTED or back to PENDING.
C1_StatusLeavesOnlyPending ==
    [][\A r \in RequestIds :
          requests'[r].status # requests[r].status
             => requests[r].status = "PENDING"]_vars

\* C2: of two approve calls on the same request at most one succeeds.
C2_OneApproveSucceeds ==
    \A s, t \in Slots :
        (s # t /\ calls[s].id \in RequestIds
              /\ ApproveDone(s, calls[s].id) /\ ApproveDone(t, calls[s].id))
           => ~(calls[s].res = "OK" /\ calls[t].res = "OK")

\* C3: an approve call that ended in an error has not written the patient.
C3_FailedApproveWroteNothing ==
    \A s \in Slots :
        (calls[s].op = "approve" /\ calls[s].pc = "done" /\ calls[s].res # "OK")
           => ~calls[s].saved

\* C4: an approve or reject call by a SUPER_ADMIN whose read of the request
\* succeeds and finds it APPROVED or REJECTED ends at once with "already
\* processed" and changes neither store.
C4_ResolvedRequestRefuses ==
    [][\A s \in Slots :
          (/\ Arrives(s)
           /\ calls'[s].op \in {"approve", "reject"}
           /\ calls'[s].role = "SUPER_ADMIN"
           /\ calls'[s].res # "StoreError"
           /\ calls'[s].id \in RequestIds
           /\ requests[calls'[s].id].status # "PENDING")
             => /\ calls'[s].pc = "done"
                /\ calls'[s].res = "AlreadyResolved"
                /\ ~calls'[s].saved
                /\ patients' = patients
                /\ requests' = requests
                /\ merged' = merged]_vars

C4_Witness ==
    \E s, t \in Slots :
        /\ calls[s].res = "AlreadyResolved" /\ calls[s].op = "approve"
        /\ calls[t].res = "OK" /\ calls[t].op = "approve"
        /\ calls[t].id = calls[s].id
        /\ requests[calls[s].id].status = "APPROVED"

\* C5: a request whose stored status is REJECTED has never had its changes
\* written to the patient.
C5_RejectedNeverMerged ==
    \A r \in RequestIds : requests[r].status = "REJECTED" => r \notin merged

\* What the specification's applyDiff yields: a flat field is overwritten, a
\* nested field gets the proposed sub-keys merged into the old ones.
NestedFields == {"emergencyContact"}

MergeInto(old, new) ==
    [k \in DOMAIN old \cup DOMAIN new |->
        IF k \in DOMAIN new THEN new[k] ELSE old[k]]

ApplyDiff(record, changes) ==
    [k \in DOMAIN record \cup DOMAIN changes |->
        IF k \notin DOMAIN changes THEN record[k]
        ELSE IF k \in NestedFields /\ k \in DOMAIN record
             THEN MergeInto(record[k], changes[k])
             ELSE changes[k]]

\* C6: after a successful approve that alone wrote the patient, the stored
\* patient is the old one with every proposed flat value set, every proposed
\* nested value merged in, and every other field as before.
C6_ApproveRoundTrip ==
    \A s \in Slots :
        (/\ calls[s].id \in RequestIds
         /\ ApproveDone(s, calls[s].id) /\ calls[s].res = "OK"
         /\ OnlyWriter(s)
         /\ requests[calls[s].id].patient \in DOMAIN patients)
           => LET request == requests[calls[s].id] IN
              patients[request.patient] =
                 ApplyDiff(InitialPatients[request.patient], request.requestedChanges)

\* C7: after a successful approve that alone wrote the patient, every
\* sub-key of a nested field that the proposed value does not mention is
\* still there with its old value.
C7_SiblingSubKeysKept ==
    \A s \in Slots :
        (/\ calls[s].id \in RequestIds
         /\ ApproveDone(s, calls[s].id) /\ calls[s].res = "OK"
         /\ OnlyWriter(s)
         /\ requests[calls[s].id].patient \in DOMAIN patients)
           => LET request == requests[calls[s].id]
                  old == InitialPatients[request.patient]
                  new == patients[request.patient]
              IN \A k \in NestedFields \cap DOMAIN request.requestedChanges :
                    \A sub \in DOMAIN old[k] \ DOMAIN request.requestedChanges[k] :
                       sub \in DOMAIN new[k] /\ new[k][sub] = old[k][sub]

\* C8: no stored patient ever differs from its first version in a field
\* outside the editable schema.
C8_OnlyEditableFieldsChange ==
    \A p \in DOMAIN patients :
        \A k \in DOMAIN patients[p] \ EditableFields :
            patients[p][k] = InitialPatients[p][k]

\* C9: a call by an actor who is not SUPER_ADMIN ends in its first step with
\* Forbidden, carries no data and leaves both stores as they were.
C9_ScopedActorForbidden ==
    [][\A s \in Slots :
          (Arrives(s) /\ calls'[s].role # "SUPER_ADMIN")
             => /\ calls'[s] = Done(calls'[s].op, calls'[s].role, UnknownId,
                                    "Forbidden", FALSE)
                /\ patients' = patients
                /\ requests' = requests
                /\ merged' = merged]_vars

C9_Witness ==
    \E s, t \in Slots :
        /\ calls[s].op = "approve" /\ calls[s].role = "HOSPITAL_ADMIN"
        /\ calls[s].res = "Forbidden"
        /\ calls[t].op = "list" /\ calls[t].role = "HOSPITAL_ADMIN"
        /\ calls[t].res = "Forbidden" /\ calls[t].list = <<>>
        /\ patients = InitialPatients /\ requests = InitialRequests

\* C10: when approve reads the patient of a PENDING request and no such
\* patient is stored, the call ends with "patient not found" and leaves both
\* stores as they were.
C10_MissingPatientKeepsPending ==
    [][\A s \in Slots :
          (/\ calls[s].pc = "findPatient" /\ calls'[s].pc # "findPatient"
           /\ calls[s].request.patient \notin DOMAIN patients
           /\ calls'[s].res # "StoreError")
             => /\ calls'[s].pc = "done"
                /\ calls'[s].res = "RecordNotFound"
                /\ ~calls'[s].saved
                /\ patients' = patients
                /\ requests' = requests
                /\ merged' = merged]_vars

C10_Witness ==
    \E s, t \in Slots :
        /\ calls[s].op = "approve" /\ calls[s].res = "RecordNotFound"
        /\ requests[calls[s].id].status = "PENDING"
        /\ requests[calls[s].id].patient \notin DOMAIN patients
        /\ calls[t].op = "reject" /\ calls[t].id = calls[s].id
        /\ calls[t].pc = "saveRequest"
\* The ids of a listing, in its order.
Ids(list) == [i \in 1..Len(list) |-> list[i].id]

\* C11: what the AdminRequests page keeps of a GET /requests response is
\* exactly the PENDING requests whose patient is stored, each once, newest
\* first; the call leaves the request store as it was.
C11_ListingShowsLivePending ==
    [][\A s \in Slots :
          (Arrives(s) /\ calls'[s].op = "list" /\ calls'[s].res = "OK")
             => LET shown == Ids(ValidRequests(calls'[s].list)) IN
                /\ {shown[i] : i \in 1..Len(shown)} =
                      {r \in RequestIds : /\ requests[r].status = "PENDING"
                                          /\ requests[r].patient \in DOMAIN patients}
                /\ \A i, j \in 1..Len(shown) :
                      i < j => requests[shown[i]].createdAt > requests[shown[j]].createdAt
                /\ requests' = requests]_vars

C11_Witness ==
    \E s \in Slots :
        /\ calls[s].op = "list" /\ calls[s].res = "OK"
        /\ Len(calls[s].list) = 3
        /\ Ids(ValidRequests(calls[s].list)) = <<1, 2>>
        /\ requests[3].status = "PENDING"

\* The PENDING requests whose patient is not stored.
Orphans ==
    {r \in RequestIds : /\ requests[r].status = "PENDING"
                        /\ requests[r].patient \notin DOMAIN patients}

\* C12: GET /requests/count answers the number of stored PENDING requests,
\* orphans included: the length of the listing before the page filters it,
\* which is the length of the filtered listing plus the number of orphans.
C12_CountIsRawPending ==
    [][\A s \in Slots :
          (Arrives(s) /\ calls'[s].op = "count" /\ calls'[s].res = "OK")
             => /\ calls'[s].count =
                      Cardinality({r \in RequestIds : requests[r].status = "PENDING"})
                /\ calls'[s].count = Len(PendingListing)
                /\ Len(ValidRequests(PendingListing)) =
                      calls'[s].count - Cardinality(Orphans)]_vars

C12_Witness ==
    /\ calls[1].op = "list" /\ calls[1].res = "OK"
    /\ Len(calls[1].list) = 3 /\ Len(ValidRequests(calls[1].list)) = 2
    /\ calls[2].op = "count" /\ calls[2].res = "OK" /\ calls[2].count = 3

\* C13: an approve or reject call by a SUPER_ADMIN whose id matches no
\* stored request ends with "request not found" and changes neither store.
C13_UnknownRequestNotFound ==
    [][\A s \in Slots :
          (/\ Arrives(s)
           /\ calls'[s].op \in {"approve", "reject"}
           /\ calls'[s].role = "SUPER_ADMIN"
           /\ calls'[s].res # "StoreError"
           /\ calls'[s].id \notin DOMAIN requests)
             => /\ calls'[s].pc = "done"
                /\ calls'[s].res = "RequestNotFound"
                /\ ~calls'[s].saved
                /\ patients' = patients
                /\ requests' = requests
                /\ merged' = merged]_vars

C13_Witness ==
    \E s, t \in Slots :
        /\ calls[s].op = "approve" /\ calls[s].res = "RequestNotFound"
        /\ calls[t].op = "reject" /\ calls[t].res = "RequestNotFound"
        /\ patients = InitialPatients /\ requests = InitialRequests
\* C18: every stored request is, but for its status, the document it was
\* when created, and a running approve or reject holds the requestedChanges
\* stored at creation.
C18_OnlyStatusChanges ==
    /\ DOMAIN requests = RequestIds
    /\ \A r \in RequestIds :
          [requests[r] EXCEPT !.status = "PENDING"] = InitialRequests[r]
    /\ \A s \in Slots :
          calls[s].pc \in {"findPatient", "savePatient", "saveRequest"}
             => calls[s].request.requestedChanges =
                   InitialRequests[calls[s].id].requestedChanges

C18_Witness ==
    /\ requests[1].status = "APPROVED" /\ 1 \in merged
    /\ requests[2].status = "REJECTED"
    /\ requests[1].requestedChanges = ChangeSets[1]
    /\ requests[2].createdAt = 1

\* C19: a stored patient differs from its first version only when an approve
\* of a request for it has saved it, and that approve, once finished, has
\* succeeded.
C19_OnlySuccessfulApproveWrites ==
    \A p \in DOMAIN patients :
        patients[p] # InitialPatients[p]
           => \E s \in Slots :
                 /\ calls[s].op = "approve" /\ calls[s].saved
                 /\ calls[s].id \in RequestIds
                 /\ requests[calls[s].id].patient = p
                 /\ calls[s].pc = "done" => calls[s].res = "OK"

\* C20: no step removes a stored request.
C20_RequestsAreKept ==
    [][DOMAIN requests \subseteq DOMAIN requests']_vars

C20_Witness ==
    /\ requests[1].status = "APPROVED"
    /\ requests[3].status = "REJECTED"
    /\ "p2" \notin DOMAIN patients
    /\ DOMAIN requests = RequestIds
\* The current value of a field or sub-field, undefined when the record (or
\* the nested object as a whole) has none.
CurrentValue(patient, key, subKey) ==
    IF key \in DOMAIN patient THEN Lookup(patient[key], subKey) ELSE Undefined

\* C14: the rendered diff has no entry for a proposed field or sub-field
\* whose value equals the current one, and one entry for every proposed field
\* or sub-field whose value differs from the current one (a value the record
\* does not have differs from every proposed value).
C14_DiffShowsExactlyTheChanges ==
    page.rendered # Null
       => LET patient == page.request.patient
              changes == page.request.requestedChanges
          IN \A key \in DOMAIN changes :
                IF key \in NestedFields
                THEN \A subKey \in DOMAIN changes[key] :
                        (page.rendered[key].entries[subKey] = Null)
                           <=> (CurrentValue(patient, key, subKey) = <<changes[key][subKey]>>)
                ELSE (page.rendered[key] = Null)
                        <=> (Lookup(patient, key) = <<changes[key]>>)

\* The proposed changes of a call or of a stored request are acceptable: not
\* empty, every key in the editable schema.
EmptyChanges(changes) == DOMAIN changes = {}
IneligibleKey(changes) == \E key \in DOMAIN changes : key \notin EditableFields

\* The actor of a call is Scoped and the patient it names, which exists, is
\* owned by another hospital.
ForeignPatient(call) ==
    /\ call.role # "SUPER_ADMIN"
    /\ call.patientId \in DOMAIN patients
    /\ patients[call.patientId].hospital # call.userHospital

\* C15: every stored request has a non-empty requestedChanges whose keys are
\* all editable; a submit for an existing patient the actor may create for
\* fails with EmptyChangeSet when the mapping is empty and with InvalidField
\* when a key is not editable, and stores nothing in both cases.
C15_StoredChangesAreValid ==
    [][/\ \A r \in DOMAIN requests' :
             /\ ~EmptyChanges(requests'[r].requestedChanges)
             /\ ~IneligibleKey(requests'[r].requestedChanges)
       /\ \A s \in Slots :
             (/\ Arrives(s) /\ calls'[s].op = "submit"
              /\ calls'[s].patientId \in DOMAIN patients
              /\ ~ForeignPatient(calls'[s]))
                => /\ EmptyChanges(calls'[s].body)
                        => calls'[s].res = "EmptyChangeSet" /\ requests' = requests
                   /\ IneligibleKey(calls'[s].body)
                        => calls'[s].res = "InvalidField" /\ requests' = requests]_vars

\* An empty submission and one with an ownership key have both failed, and
\* no request is stored.
C15_Witness ==
    /\ requests = <<>>
    /\ \E s, t \in Slots :
          /\ calls[s].op = "submit" /\ calls[s].res = "EmptyChangeSet"
          /\ EmptyChanges(calls[s].body)
          /\ calls[t].op = "submit" /\ calls[t].res = "InvalidField"
          /\ IneligibleKey(calls[t].body)

\* C16: a submit or a well-formed report creation by a Scoped actor for an
\* existing patient of another hospital ends at once with Forbidden and
\* stores no request and no report; for a patient of the actor's own hospital,
\* and for a SUPER_ADMIN whatever the patient's hospital, it is not Forbidden.
C16_CreateOnlyInOwnOrganization ==
    [][\A s \in Slots :
          (/\ Arrives(s) /\ calls'[s].op \in {"submit", "createReport"}
           /\ calls'[s].patientId \in DOMAIN patients
           /\ calls'[s].res # "StoreError"
           /\ calls'[s].op = "createReport" => calls'[s].body.title # "")
             => IF ForeignPatient(calls'[s])
                THEN /\ calls'[s].pc = "done" /\ calls'[s].res = "Forbidden"
                     /\ ~calls'[s].saved
                     /\ requests' = requests /\ reports' = reports
                ELSE calls'[s].res \in {"none", "OK"}]_vars

\* A HOSPITAL_ADMIN of h1 was refused a report for p2 and a SUPER_ADMIN has
\* created one for it.
C16_Witness ==
    /\ \E r \in DOMAIN reports : DOMAIN reports = {r} /\ reports[r].patient = "p2"
    /\ \E s, t \in Slots :
          /\ calls[s].op = "createReport" /\ calls[s].role = "HOSPITAL_ADMIN"
          /\ calls[s].userHospital = "h1" /\ calls[s].patientId = "p2"
          /\ calls[s].res = "Forbidden"
          /\ calls[t].op = "createReport" /\ calls[t].role = "SUPER_ADMIN"
          /\ calls[t].patientId = "p2" /\ calls[t].res = "Created"

\* The Patient store without the patient p.
WithoutPatient(p) == [q \in DOMAIN patients \ {p} |-> patients[q]]

\* C17: a call of the reports router by a Scoped actor for a patient of
\* another hospital gets the answer that the same call gets in the state
\* that differs only in that this patient does not exist.
C17_SameErrorWhetherRecordExists ==
    [][\A s \in Slots :
          (/\ Arrives(s) /\ calls'[s].op \in {"createReport", "patientReports"}
           /\ calls'[s].res \notin {"StoreError", "BadRequest"}
           /\ ForeignPatient(calls'[s]))
             => calls'[s].res =
                   PatientAccess(WithoutPatient(calls'[s].patientId), calls'[s].role,
                                 calls'[s].userHospital, calls'[s].patientId)]_vars

\* C21: in every reachable state, a SUPER_ADMIN's reject of a PENDING request
\* can arrive (while a call can arrive at all) and is then not refused, whether
\* or not the request's patient is stored; and a reject that has got there
\* can save, which sets the request REJECTED and answers 200.
C21_PendingCanBeRejected ==
    /\ \A r \in DOMAIN requests :
          (requests[r].status = "PENDING" /\ \E s \in Slots : Free(s))
             => ENABLED (\E s \in Slots :
                            /\ Reject(s, "SUPER_ADMIN", r)
                            /\ calls'[s].pc = "saveRequest")
    /\ \A s \in Slots :
          (calls[s].op = "reject" /\ calls[s].pc = "saveRequest")
             => ENABLED (/\ SaveRequest(s)
                         /\ requests'[calls[s].id].status = "REJECTED"
                         /\ calls'[s].res = "OK")

\* A request whose patient has been deleted was rejected.
C21_Witness ==
    \E s \in Slots :
        /\ calls[s].op = "reject" /\ calls[s].res = "OK"
        /\ requests[calls[s].id].status = "REJECTED"
        /\ requests[calls[s].id].patient \notin DOMAIN patients

\* C22: for every proposed field the patient has no value for, the rendered
\* diff has an entry, and for a nested field the patient has no value for, an
\* entry for every proposed sub-key; each shows the old value as 'N/A'.
C22_AbsentValueAlwaysShown ==
    page.rendered # Null
       => LET patient == page.request.patient
              changes == page.request.requestedChanges
          IN \A key \in DOMAIN changes \ DOMAIN patient :
                IF key \in NestedFields
                THEN \A subKey \in DOMAIN changes[key] :
                        /\ page.rendered[key].entries[subKey] # Null
                        /\ page.rendered[key].entries[subKey].old = "N/A"
                ELSE /\ page.rendered[key] # Null
                     /\ page.rendered[key].old = "N/A"

\* The patient after the approves of requests a and then b, run one after
\* the other on the first version of the patient.
OneAfterTheOther(a, b) ==
    ObjectAssign(ObjectAssign(InitialPatients[requests[a].patient],
                              requests[a].requestedChanges),
                 requests[b].requestedChanges)

\* Two finished successful approves of different requests for the same
\* patient whose proposed fields are disjoint.
DisjointApproves(s, t) ==
    /\ calls[s].id \in RequestIds /\ calls[t].id \in RequestIds
    /\ ApproveDone(s, calls[s].id) /\ calls[s].res = "OK"
    /\ ApproveDone(t, calls[t].id) /\ calls[t].res = "OK"
    /\ calls[s].id # calls[t].id
    /\ requests[calls[s].id].patient = requests[calls[t].id].patient
    /\ DOMAIN requests[calls[s].id].requestedChanges
          \cap DOMAIN requests[calls[t].id].requestedChanges = {}

\* C23: after two successful approves of different requests for the same
\* patient with disjoint proposed fields, however their steps interleaved, the
\* stored patient has the proposed values of both and is what the two
\* approves give when run one after the other, in either order.
C23_DisjointApprovesBothApply ==
    \A s, t \in Slots :
        (DisjointApproves(s, t) /\ requests[calls[s].id].patient \in DOMAIN patients)
           => LET a == calls[s].id
                  b == calls[t].id
                  patient == patients[requests[a].patient]
              IN /\ \A k \in DOMAIN requests[a].requestedChanges :
                        patient[k] = requests[a].requestedChanges[k]
                 /\ \A k \in DOMAIN requests[b].requestedChanges :
                        patient[k] = requests[b].requestedChanges[k]
                 /\ patient = OneAfterTheOther(a, b)
                 /\ patient = OneAfterTheOther(b, a)

\* Both approves have succeeded and the patient holds the values of both.
C23_Witness ==
    \E s, t \in Slots :
        /\ DisjointApproves(s, t)
        /\ requests[calls[s].id].patient \in DOMAIN patients
        /\ patients[requests[calls[s].id].patient].fullName = "Bob"
        /\ patients[requests[calls[s].id].patient].emergencyContact = [phone |-> "222"]

\* The approve in slot s wrote the patient and then failed; the approve in
\* slot t of the same request succeeded; nothing else wrote a patient.
RetriedApprove(s, t) ==
    /\ calls[s].id \in RequestIds
    /\ ApproveDone(s, calls[s].id) /\ calls[s].saved /\ calls[s].res = "StoreError"
    /\ ApproveDone(t, calls[s].id) /\ calls[t].res = "OK"
    /\ \A u \in Slots \ {s, t} : ~calls[u].saved

\* C24: assigning the requestedChanges of a request to a patient twice gives
\* what assigning them once gives, and after an approve that wrote the patient
\* and failed, a second approve of that request that succeeds leaves the
\* patient as the first application made it.
C24_MergeIsIdempotent ==
    /\ \A p \in DOMAIN patients, r \in DOMAIN requests :
          ObjectAssign(ObjectAssign(patients[p], requests[r].requestedChanges),
                       requests[r].requestedChanges)
             = ObjectAssign(patients[p], requests[r].requestedChanges)
    /\ \A s, t \in Slots :
          (RetriedApprove(s, t) /\ requests[calls[s].id].patient \in DOMAIN patients)
             => patients[requests[calls[s].id].patient]
                   = ObjectAssign(InitialPatients[requests[calls[s].id].patient],
                                  requests[calls[s].id].requestedChanges)

\* A request was approved again after its first approve had written the
\* patient and failed.
C24_Witness ==
    \E s, t \in Slots :
        /\ RetriedApprove(s, t)
        /\ requests[calls[s].id].patient \in DOMAIN patients
        /\ requests[calls[s].id].status = "APPROVED"
        /\ patients[requests[calls[s].id].patient]
              # InitialPatients[requests[calls[s].id].patient]

\* C25: every stored report whose patient is stored carries the hospital of
\* that patient.
C25_ReportHospitalIsPatientHospital ==
    \A r \in DOMAIN reports :
        reports[r].patient \in DOMAIN patients
           => reports[r].hospital = patients[reports[r].patient].hospital

\* The actor of a call is not a SUPER_ADMIN and the report it names, which
\* is stored, carries another hospital.
ForeignReport(call) ==
    /\ call.role # "SUPER_ADMIN"
    /\ call.id \in DOMAIN reports
    /\ reports[call.id].hospital # call.userHospital

\* C26: a read, update or delete by a non-SUPER_ADMIN actor of a stored report
\* of another hospital ends at once with Forbidden and leaves the reports as
\* they are; and a step in which such an actor's call changes or removes a
\* report touches only the report it names, which carries the actor's hospital.
C26_ForeignReportUntouched ==
    [][\A s \in Slots :
          /\ (/\ Arrives(s)
              /\ calls'[s].op \in {"getReport", "updateReport", "deleteReport"}
              /\ calls'[s].res # "StoreError"
              /\ ForeignReport(calls'[s]))
                => /\ calls'[s].pc = "done" /\ calls'[s].res = "Forbidden"
                   /\ ~calls'[s].saved
                   /\ reports' = reports
          /\ (/\ calls[s].op \in {"getReport", "updateReport", "deleteReport"}
              /\ calls[s].role # "SUPER_ADMIN"
              /\ calls'[s] # calls[s]
              /\ reports' # reports)
                => /\ reports[calls[s].id].hospital = calls[s].userHospital
                   /\ \A r \in DOMAIN reports \ {calls[s].id} :
                         r \in DOMAIN reports' /\ reports'[r] = reports[r]]_vars

\* A HOSPITAL_ADMIN of h1 was refused the deletion of the report of h2 and a
\* HOSPITAL_ADMIN of h2 has changed its title.
C26_Witness ==
    \E s, t \in Slots, r \in DOMAIN reports :
        /\ reports[r].hospital = "h2" /\ reports[r].title = "Scan"
        /\ calls[s].op = "deleteReport" /\ calls[s].role = "HOSPITAL_ADMIN"
        /\ calls[s].userHospital = "h1" /\ calls[s].id = r
        /\ calls[s].res = "Forbidden"
        /\ calls[t].op = "updateReport" /\ calls[t].role = "HOSPITAL_ADMIN"
        /\ calls[t].userHospital = "h2" /\ calls[t].id = r
        /\ calls[t].res = "OK"

====
